---- MODULE Spec2Model ----
(***************************************************************************)
(* Model of blood.py, a Streamlit page that evaluates the Hagen-Poiseuille *)
(* relation Q = pi r^4 dP / (8 eta L) and its inverse.                     *)
(*                                                                         *)
(* Numbers.  Python floats are modelled as exact rationals with a decimal  *)
(* exponent, (+/-) n/d * 10^e, where n and d are arbitrary-size naturals   *)
(* kept as little-endian sequences of base-10^4 limbs (TLC integers are    *)
(* 32 bits wide).  np.pi is its 16-digit decimal value.  Binary64 rounding *)
(* (relative error about 1e-16 per operation) is outside the model, so     *)
(* "equal within floating-point tolerance" is checked as exact equality.   *)
(* Division by a zero scalar yields the exception value ZeroDivisionError, *)
(* as Python's float and int division does.                                *)
(***************************************************************************)
EXTENDS Integers, Sequences, FiniteSets, TLC

----------------------------------------------------------------------------
(* Arbitrary-size naturals: <<>> is 0, no leading (last) zero limb.        *)

Base == 10000

RECURSIVE BNat(_)
BNat(k) == IF k = 0 THEN <<>> ELSE <<k % Base>> \o BNat(k \div Base)

RECURSIVE ColSum(_, _, _, _, _)
ColSum(a, b, k, i, hi) ==
    IF i > hi THEN 0 ELSE a[i] * b[k + 1 - i] + ColSum(a, b, k, i + 1, hi)

RECURSIVE MulCarry(_, _, _, _)
MulCarry(a, b, k, c) ==
    IF k >= Len(a) + Len(b) /\ c = 0 THEN <<>>
    ELSE LET lo == IF k > Len(b) THEN k + 1 - Len(b) ELSE 1
             hi == IF k < Len(a) THEN k ELSE Len(a)
             t  == c + ColSum(a, b, k, lo, hi)
         IN  <<t % Base>> \o MulCarry(a, b, k + 1, t \div Base)

RECURSIVE MulSmall(_, _, _, _)
\* a times the single limb m, from limb i on with carry c
MulSmall(a, m, i, c) ==
    IF i > Len(a) THEN (IF c = 0 THEN <<>> ELSE <<c>>)
    ELSE LET t == a[i] * m + c
         IN  <<t % Base>> \o MulSmall(a, m, i + 1, t \div Base)

BMul(a, b) ==
    IF a = <<>> \/ b = <<>> THEN <<>>
    ELSE IF b = <<1>> THEN a
    ELSE IF a = <<1>> THEN b
    ELSE IF Len(b) = 1 THEN MulSmall(a, b[1], 1, 0)
    ELSE IF Len(a) = 1 THEN MulSmall(b, a[1], 1, 0)
    ELSE MulCarry(a, b, 1, 0)

RECURSIVE AddCarry(_, _, _, _)
AddCarry(a, b, i, c) ==
    IF i > Len(a) /\ i > Len(b) THEN (IF c = 0 THEN <<>> ELSE <<c>>)
    ELSE LET t == c + (IF i <= Len(a) THEN a[i] ELSE 0)
                    + (IF i <= Len(b) THEN b[i] ELSE 0)
         IN  <<t % Base>> \o AddCarry(a, b, i + 1, t \div Base)

BAdd(a, b) == IF a = <<>> THEN b ELSE IF b = <<>> THEN a ELSE AddCarry(a, b, 1, 0)

RECURSIVE CmpFrom(_, _, _)
CmpFrom(a, b, i) ==
    IF i = 0 THEN 0
    ELSE IF a[i] < b[i] THEN -1
    ELSE IF a[i] > b[i] THEN 1
    ELSE CmpFrom(a, b, i - 1)

BCmp(a, b) ==
    IF Len(a) < Len(b) THEN -1
    ELSE IF Len(a) > Len(b) THEN 1
    ELSE CmpFrom(a, b, Len(a))

RECURSIVE BSub(_, _, _, _)
\* a - b for a >= b, limb by limb with borrow c; may leave leading zeros
BSub(a, b, i, c) ==
    IF i > Len(a) THEN <<>>
    ELSE LET t == a[i] - c - (IF i <= Len(b) THEN b[i] ELSE 0)
         IN  IF t < 0 THEN <<t + Base>> \o BSub(a, b, i + 1, 1)
             ELSE <<t>> \o BSub(a, b, i + 1, 0)

RECURSIVE BTrim(_)
BTrim(a) == IF a = <<>> THEN a
            ELSE IF a[Len(a)] = 0 THEN BTrim(SubSeq(a, 1, Len(a) - 1))
            ELSE a

\* a * 10^k, k >= 0
BShift(a, k) ==
    IF a = <<>> \/ k = 0 THEN a
    ELSE [i \in 1..(k \div 4) |-> 0] \o BMul(a, <<10 ^ (k % 4)>>)

----------------------------------------------------------------------------
(* Numbers: sign, numerator, denominator, decimal exponent.                *)

RECURSIVE Dec(_, _)
\* the decimal literal m * 10^e, trailing zeros moved into the exponent
Dec(m, e) ==
    IF m = 0 THEN [neg |-> FALSE, n |-> <<>>, d |-> <<1>>, e |-> 0]
    ELSE IF m < 0 THEN [Dec(-m, e) EXCEPT !.neg = TRUE]
    ELSE IF m % 10 = 0 THEN Dec(m \div 10, e + 1)
    ELSE [neg |-> FALSE, n |-> BNat(m), d |-> <<1>>, e |-> e]

ZeroDivisionError == [exc |-> "ZeroDivisionError"]
\* numpy's result of dividing an array element by zero (inf or nan, no exception)
NonFinite == [inf |-> TRUE]
IsNum(x) == "n" \in DOMAIN x
IsArr(x) == "arr" \in DOMAIN x
IsExc(x) == "exc" \in DOMAIN x
IsZero(x) == x.n = <<>>

\* scalar product; an exception or a non-finite operand propagates
SMul(x, y) ==
    IF ~IsNum(x) THEN x ELSE IF ~IsNum(y) THEN y
    ELSE IF IsZero(x) \/ IsZero(y) THEN Dec(0, 0)
    ELSE [neg |-> x.neg # y.neg, n |-> BMul(x.n, y.n),
          d |-> BMul(x.d, y.d), e |-> x.e + y.e]

\* the quotient as numpy's float64 gives it: inf or nan, no exception
SDiv_numpy(x, y) ==
    IF ~IsNum(x) THEN x ELSE IF ~IsNum(y) THEN y
    ELSE IF IsZero(y) THEN NonFinite
    ELSE IF IsZero(x) THEN Dec(0, 0)
    ELSE [neg |-> x.neg # y.neg, n |-> BMul(x.n, y.d),
          d |-> BMul(x.d, y.n), e |-> x.e - y.e]

\* scalar quotient: Python raises ZeroDivisionError on a zero divisor
SDiv(x, y) ==
    IF ~IsNum(x) THEN x ELSE IF ~IsNum(y) THEN y
    ELSE IF IsZero(y) THEN ZeroDivisionError
    ELSE IF IsZero(x) THEN Dec(0, 0)
    ELSE [neg |-> x.neg # y.neg, n |-> BMul(x.n, y.d),
          d |-> BMul(x.d, y.n), e |-> x.e - y.e]

\* element of an ndarray quotient: numpy yields inf/nan where Python raises
ADiv(x, y) == LET q == SDiv(x, y) IN IF IsExc(q) THEN NonFinite ELSE q

\* x * y and x / y with numpy broadcasting of a scalar over an ndarray
Mul(x, y) ==
    IF IsArr(x) THEN [arr |-> [i \in DOMAIN x.arr |-> SMul(x.arr[i], y)]]
    ELSE IF IsArr(y) THEN [arr |-> [i \in DOMAIN y.arr |-> SMul(x, y.arr[i])]]
    ELSE SMul(x, y)

Div(x, y) ==
    IF IsArr(x) THEN [arr |-> [i \in DOMAIN x.arr |-> ADiv(x.arr[i], y)]]
    ELSE IF IsArr(y) THEN [arr |-> [i \in DOMAIN y.arr |-> ADiv(x, y.arr[i])]]
    ELSE SDiv(x, y)

\* x ** 2
Pow4_square(x) ==
    IF IsArr(x)
    THEN [arr |-> [i \in DOMAIN x.arr |-> LET v == x.arr[i] IN SMul(v, v)]]
    ELSE SMul(x, x)

\* x ** 4
Pow4(x) ==
    IF IsArr(x)
    THEN [arr |-> [i \in DOMAIN x.arr |->
                      LET v == x.arr[i]
                          w == SMul(v, v)
                      IN  SMul(w, w)]]
    ELSE LET w == SMul(x, x) IN SMul(w, w)

\* magnitudes of x and y brought to the common denominator and exponent
MagL(x, y) == BShift(BMul(x.n, y.d), IF x.e > y.e THEN x.e - y.e ELSE 0)
MagR(x, y) == BShift(BMul(y.n, x.d), IF y.e > x.e THEN y.e - x.e ELSE 0)

\* -1, 0, 1 as x < y, x = y, x > y
NCmp(x, y) ==
    IF IsZero(x) THEN (IF IsZero(y) THEN 0 ELSE IF y.neg THEN 1 ELSE -1)
    ELSE IF IsZero(y) THEN (IF x.neg THEN -1 ELSE 1)
    ELSE IF x.neg /\ ~y.neg THEN -1
    ELSE IF ~x.neg /\ y.neg THEN 1
    ELSE LET c == IF x.d = y.d /\ x.e = y.e THEN BCmp(x.n, y.n)
                  ELSE BCmp(MagL(x, y), MagR(x, y))
         IN  IF x.neg THEN -c ELSE c

NLess(x, y) == IsNum(x) /\ IsNum(y) /\ NCmp(x, y) = -1
NEq(x, y) == IsNum(x) /\ IsNum(y) /\ (x = y \/ NCmp(x, y) = 0)
NPos(x) == IsNum(x) /\ ~IsZero(x) /\ ~x.neg

Neg(x) == IF IsZero(x) THEN x ELSE [x EXCEPT !.neg = ~x.neg]

Add(x, y) ==
    IF IsZero(x) THEN y ELSE IF IsZero(y) THEN x
    ELSE LET l == MagL(x, y)
             r == MagR(x, y)
             den == BMul(x.d, y.d)
             ex == IF x.e < y.e THEN x.e ELSE y.e
         IN  IF x.neg = y.neg
             THEN [neg |-> x.neg, n |-> BAdd(l, r), d |-> den, e |-> ex]
             ELSE IF BCmp(l, r) = 0 THEN Dec(0, 0)
             ELSE IF BCmp(l, r) = 1
                  THEN [neg |-> x.neg, n |-> BTrim(BSub(l, r, 1, 0)), d |-> den, e |-> ex]
                  ELSE [neg |-> y.neg, n |-> BTrim(BSub(r, l, 1, 0)), d |-> den, e |-> ex]

\* np.pi = 3.141592653589793
Pi == [neg |-> FALSE, n |-> <<9793, 5358, 5926, 3141>>, d |-> <<1>>, e |-> -15]

\* np.linspace(start, stop, num): arange(num) * step + start, last point = stop
LinSpace(start, stop, num) ==
    LET step == SDiv(Add(stop, Neg(start)), Dec(num - 1, 0))
    IN  [arr |-> [i \in 1..num |->
                     IF i = num THEN stop
                     ELSE Add(SMul(Dec(i - 1, 0), step), start)]]

----------------------------------------------------------------------------
(* The formulas (blood.py 66-79).                                          *)

\* the denominator's parentheses dropped: pi * r**4 * dP / 8.0 * eta * L
Q_from_noparens(r_m, dP_, eta_, L_) ==
    Mul(Mul(Div(Mul(Mul(Pi, Pow4(r_m)), dP_), Dec(8, 0)), eta_), L_)

Q_from(r_m, dP_, eta_, L_) ==
    Div(Mul(Mul(Pi, Pow4(r_m)), dP_), Mul(Mul(Dec(8, 0), eta_), L_))

\* the denominator's parentheses dropped: 8.0 * eta * L * Q / pi * r**4
dP_from_noparens(r_m, Q, eta_, L_) ==
    Mul(Div(Mul(Mul(Mul(Dec(8, 0), eta_), L_), Q), Pi), Pow4(r_m))

dP_from(r_m, Q, eta_, L_) ==
    Div(Mul(Mul(Mul(Dec(8, 0), eta_), L_), Q), Mul(Pi, Pow4(r_m)))

\* litres instead of millilitres
to_mL_per_s_litres(Q_m3_s) == Mul(Q_m3_s, Dec(1000, 0))

to_mL_per_s(Q_m3_s) == Mul(Q_m3_s, Dec(1000000, 0))

----------------------------------------------------------------------------
(* Bounds: how many of each widget's values, and of each argument's        *)
(* values in the direct calls, the model explores.                         *)

NR == 2
NP == 1
NL == 2
NB == 3
NArg == 3

\* candidate positions, the widget's default first
RTicks == <<10, 2, 30, 7, 15>>               \* tenths of a millimetre
PTicks == <<1000, 100, 3000, 1500>>          \* pascals
LTicks == <<10, 5, 30, 20>>                  \* hundredths of a metre
BTicks == <<200, 1025, 1024, 2000, 50>>      \* pascals

Ticks(seq, k) == {seq[i] : i \in 1..(IF k < Len(seq) THEN k ELSE Len(seq))}

\* st.sidebar.slider("r (mm)", 0.2, 3.0, 1.0, 0.1)
r_mm_slider == {Dec(k, -1) : k \in {t \in Ticks(RTicks, NR) : 2 <= t /\ t <= 30}}
\* st.sidebar.selectbox("eta", [0.003, 0.004, 0.005], index=1)
eta_selectbox == {Dec(3, -3), Dec(4, -3), Dec(5, -3)}
\* st.sidebar.slider("dP (Pa)", 100, 3000, 1000)
dP_slider == {Dec(k, 0) : k \in {t \in Ticks(PTicks, NP) : 100 <= t /\ t <= 3000}}
\* st.sidebar.slider("L (m)", 0.05, 0.30, 0.10)
L_slider == {Dec(k, -2) : k \in {t \in Ticks(LTicks, NL) : 5 <= t /\ t <= 30}}
\* st.radio("unit", ["mL/s", "m3/s"], index=0)
unit_radio == {"mL/s", "m3/s"}
\* st.slider("dP_base (Pa)", 50, 2000, 200)
dP_base_slider == {Dec(k, 0) : k \in {t \in Ticks(BTicks, NB) : 50 <= t /\ t <= 2000}}

\* the scenario catalog, in insertion order
scenarios == <<
    [name |-> "normal",          r_mm |-> Dec(10, -1), eta |-> Dec(4, -3)],
    [name |-> "arterial",        r_mm |-> Dec(7, -1),  eta |-> Dec(5, -3)],
    [name |-> "hyperlipidemia",  r_mm |-> Dec(10, -1), eta |-> Dec(5, -3)],
    [name |-> "dehydration",     r_mm |-> Dec(10, -1), eta |-> Dec(6, -3)] >>

SweepPoints == 200

r_vals_from_zero == LinSpace(Dec(0, 0), Dec(30, -1), SweepPoints)
r_vals == LinSpace(Dec(2, -1), Dec(30, -1), SweepPoints)
eta_vals == LinSpace(Dec(3, -3), Dec(7, -3), SweepPoints)

\* 5333 Pa, the advisory threshold
Threshold == Dec(5333, 0)

RECURSIVE MaxFrom(_, _, _)
MaxFrom(xs, i, m) ==
    IF i > Len(xs) THEN m
    ELSE MaxFrom(xs, i + 1, IF NLess(m, xs[i]) THEN xs[i] ELSE m)

PyMax_first(xs) == xs[1]
\* Python's max(list)
PyMax(xs) == MaxFrom(xs, 2, xs[1])

\* arguments of the direct calls, in units of 1e-4 m, 1, 1e-3 Pa s, 1e-2 m
FRTicks == <<10, 0, 20, -10, 7, 5>>
FXTicks == <<1000, 0, -200, 200, 3>>
FEtaTicks == <<4, 0, 5, 3, 6>>
FLTicks == <<10, 0, 20, 5, 30>>

----------------------------------------------------------------------------
(* State: the widget values Streamlit keeps between runs; the script's own *)
(* variables, which every run starts without; and, for the direct calls of *)
(* the two formulas, the arguments and what each call returned.            *)

VARIABLES r_mm, eta, dP, L, unit, dP_base,
          pc, Q_now_m3s, Q_now_disp, Q_r_m3s, Q_r_disp, Q_eta_m3s, Q_eta_disp,
          Q_target_m3s, Q_target_disp, names, dPs, warning,
          fr, fx, feta, fL, fQ, fdP, fback, fQ2r

widgets == <<r_mm, eta, dP, L, unit, dP_base>>
now_vars == <<Q_now_m3s, Q_now_disp>>
plot_r_vars == <<Q_r_m3s, Q_r_disp>>
plot_eta_vars == <<Q_eta_m3s, Q_eta_disp>>
target_vars == <<Q_target_m3s, Q_target_disp>>
scen_vars == <<names, dPs>>
script_vars == <<pc, now_vars, plot_r_vars, plot_eta_vars, target_vars, scen_vars,
                 warning>>
fn_args == <<fr, fx, feta, fL>>
fn_vars == <<fn_args, fQ, fdP, fback, fQ2r>>
vars == <<widgets, script_vars, fn_vars>>

Unset == [unset |-> TRUE]
IsSet(x) == "unset" \notin DOMAIN x

\* a run of the script begins: nothing of the previous run's namespace is left
Fresh ==
    /\ pc' = "calc"
    /\ Q_now_m3s' = Unset /\ Q_now_disp' = Unset
    /\ Q_r_m3s' = Unset /\ Q_r_disp' = Unset
    /\ Q_eta_m3s' = Unset /\ Q_eta_disp' = Unset
    /\ Q_target_m3s' = Unset /\ Q_target_disp' = Unset
    /\ names' = <<>> /\ dPs' = <<>>
    /\ warning' = FALSE
    /\ UNCHANGED fn_vars

\* the page is opened: every widget at its default, the first run about to start
InitApp ==
    /\ r_mm = Dec(10, -1)
    /\ eta = Dec(4, -3)
    /\ dP = Dec(1000, 0)
    /\ L = Dec(10, -2)
    /\ unit = "mL/s"
    /\ dP_base = Dec(200, 0)
    /\ pc = "calc"
    /\ Q_now_m3s = Unset /\ Q_now_disp = Unset
    /\ Q_r_m3s = Unset /\ Q_r_disp = Unset
    /\ Q_eta_m3s = Unset /\ Q_eta_disp = Unset
    /\ Q_target_m3s = Unset /\ Q_target_disp = Unset
    /\ names = <<>> /\ dPs = <<>>
    /\ warning = FALSE

NoCalls == fQ = Unset /\ fdP = Unset /\ fback = Unset /\ fQ2r = Unset

Init ==
    /\ InitApp
    /\ fr = Dec(10, -4) /\ fx = Dec(1000, 0) /\ feta = Dec(4, -3) /\ fL = Dec(10, -2)
    /\ NoCalls

(* A widget interaction stores the new value and reruns the script from   *)
(* the top, abandoning a run in progress.                                  *)
SetRadius(v) == r_mm' = v /\ UNCHANGED <<eta, dP, L, unit, dP_base>> /\ Fresh
SetViscosity(v) == eta' = v /\ UNCHANGED <<r_mm, dP, L, unit, dP_base>> /\ Fresh
SetPressure(v) == dP' = v /\ UNCHANGED <<r_mm, eta, L, unit, dP_base>> /\ Fresh
SetLength(v) == L' = v /\ UNCHANGED <<r_mm, eta, dP, unit, dP_base>> /\ Fresh
SetUnit_no_rerun(v) == unit' = v /\ UNCHANGED <<r_mm, eta, dP, L, dP_base, script_vars, fn_vars>>
SetUnit(v) == unit' = v /\ UNCHANGED <<r_mm, eta, dP, L, dP_base>> /\ Fresh
SetDPBase(v) == dP_base' = v /\ UNCHANGED <<r_mm, eta, dP, L, unit>> /\ Fresh

\* x if unit == "mL/s" converted, else as is (lines 99, 111, 124, 144)
Disp(Q) == IF unit = "mL/s" THEN to_mL_per_s(Q) ELSE Q

\* where the run goes after computing x: an uncaught exception ends it
After(x, next) == IF IsExc(x) THEN "exception" ELSE next

\* lines 90-106: the current flow
StepCalc ==
    /\ pc = "calc"
    /\ LET r_m == Div(r_mm, Dec(1000, 0))
           q == Q_from(r_m, dP, eta, L)
       IN  /\ Q_now_m3s' = q
           /\ Q_now_disp' = Disp(q)
           /\ pc' = After(q, "plot_r")
    /\ UNCHANGED <<widgets, plot_r_vars, plot_eta_vars, target_vars, scen_vars,
                   warning, fn_vars>>

\* lines 109-119: Q against r
StepPlotR ==
    /\ pc = "plot_r"
    /\ LET q == Q_from(Div(r_vals, Dec(1000, 0)), dP, eta, L)
       IN  /\ Q_r_m3s' = q
           /\ Q_r_disp' = Disp(q)
           /\ pc' = After(q, "plot_eta")
    /\ UNCHANGED <<widgets, now_vars, plot_eta_vars, target_vars, scen_vars,
                   warning, fn_vars>>

\* lines 122-132: Q against eta
StepPlotEta ==
    /\ pc = "plot_eta"
    /\ LET r_m == Div(r_mm, Dec(1000, 0))
           q == Q_from(r_m, dP, eta_vals, L)
       IN  /\ Q_eta_m3s' = q
           /\ Q_eta_disp' = Disp(q)
           /\ pc' = After(q, "target")
    /\ UNCHANGED <<widgets, now_vars, plot_r_vars, target_vars, scen_vars,
                   warning, fn_vars>>

\* the reference flow computed for a fixed 0.10 m instead of the slider's L
StepTarget_fixed_L ==
    /\ pc = "target"
    /\ LET q == Q_from(Dec(1, -3), dP_base, Dec(4, -3), Dec(10, -2))
       IN  /\ Q_target_m3s' = q
           /\ Q_target_disp' = Disp(q)
           /\ pc' = After(q, "scenarios")
    /\ UNCHANGED <<widgets, now_vars, plot_r_vars, plot_eta_vars, scen_vars,
                   warning, fn_vars>>

\* the reference flow computed from the sidebar's viscosity
StepTarget_sidebar ==
    /\ pc = "target"
    /\ LET q == Q_from(Dec(1, -3), dP_base, eta, L)
       IN  /\ Q_target_m3s' = q
           /\ Q_target_disp' = Disp(q)
           /\ pc' = After(q, "scenarios")
    /\ UNCHANGED <<widgets, now_vars, plot_r_vars, plot_eta_vars, scen_vars,
                   warning, fn_vars>>

\* lines 142-145: the reference flow
StepTarget ==
    /\ pc = "target"
    /\ LET q == Q_from(Dec(1, -3), dP_base, Dec(4, -3), L)
       IN  /\ Q_target_m3s' = q
           /\ Q_target_disp' = Disp(q)
           /\ pc' = After(q, "scenarios")
    /\ UNCHANGED <<widgets, now_vars, plot_r_vars, plot_eta_vars, scen_vars,
                   warning, fn_vars>>

\* lines 161-167: one pass of the loop over the catalog
StepScenario ==
    /\ pc = "scenarios"
    /\ Len(dPs) < Len(scenarios)
    /\ LET vals == scenarios[Len(dPs) + 1]
           r_ == Div(vals.r_mm, Dec(1000, 0))
           e_ == vals.eta
           dP_need == dP_from(r_, Q_target_m3s, e_, L)
       IN  IF IsExc(dP_need)
           THEN pc' = "exception" /\ UNCHANGED scen_vars
           ELSE /\ dPs' = Append(dPs, dP_need)
                /\ names' = Append(names, vals.name)
                /\ pc' = pc
    /\ UNCHANGED <<widgets, now_vars, plot_r_vars, plot_eta_vars, target_vars,
                   warning, fn_vars>>

\* lines 194-195: the advisory, after the loop
StepWarn ==
    /\ pc = "scenarios"
    /\ Len(dPs) = Len(scenarios)
    /\ warning' = NLess(Threshold, PyMax(dPs))
    /\ pc' = "done"
    /\ UNCHANGED <<widgets, now_vars, plot_r_vars, plot_eta_vars, target_vars,
                   scen_vars, fn_vars>>

Next ==
    \/ \E v \in r_mm_slider : SetRadius(v)
    \/ \E v \in eta_selectbox : SetViscosity(v)
    \/ \E v \in dP_slider : SetPressure(v)
    \/ \E v \in L_slider : SetLength(v)
    \/ \E v \in unit_radio : SetUnit(v)
    \/ \E v \in dP_base_slider : SetDPBase(v)
    \/ StepCalc
    \/ StepPlotR
    \/ StepPlotEta
    \/ StepTarget
    \/ StepScenario
    \/ StepWarn

Spec == Init /\ [][Next]_vars

----------------------------------------------------------------------------
(* Direct calls of the two formulas on arguments drawn from bounded sets.  *)

InitFn ==
    /\ InitApp
    /\ fr \in {Dec(k, -4) : k \in Ticks(FRTicks, NArg)}
    /\ fx \in {Dec(k, 0) : k \in Ticks(FXTicks, NArg)}
    /\ feta \in {Dec(k, -3) : k \in Ticks(FEtaTicks, NArg)}
    /\ fL \in {Dec(k, -2) : k \in Ticks(FLTicks, NArg)}
    /\ NoCalls

\* Q_from(r, dP, eta, L), with fx as dP
CallQ ==
    /\ fQ = Unset
    /\ fQ' = Q_from(fr, fx, feta, fL)
    /\ UNCHANGED <<widgets, script_vars, fn_args, fdP, fback, fQ2r>>

\* dP_from(r, Q, eta, L), with fx as Q
CallDP ==
    /\ fdP = Unset
    /\ fdP' = dP_from(fr, fx, feta, fL)
    /\ UNCHANGED <<widgets, script_vars, fn_args, fQ, fback, fQ2r>>

\* dP_from(r, Q_from(r, dP, eta, L), eta, L)
CallRoundTrip ==
    /\ fback = Unset
    /\ fback' = dP_from(fr, Q_from(fr, fx, feta, fL), feta, fL)
    /\ UNCHANGED <<widgets, script_vars, fn_args, fQ, fdP, fQ2r>>

\* Q_from(2 * r, dP, eta, L)
CallDoubled ==
    /\ fQ2r = Unset
    /\ fQ2r' = Q_from(Mul(Dec(2, 0), fr), fx, feta, fL)
    /\ UNCHANGED <<widgets, script_vars, fn_args, fQ, fdP, fback>>

NextFn == CallQ \/ CallDP \/ CallRoundTrip \/ CallDoubled

SpecFn == InitFn /\ [][NextFn]_vars

----------------------------------------------------------------------------
(* Properties of the two formulas, checked under SpecFn.                   *)

\* C1: for r > 0, eta > 0, L > 0 and any dP,
\* dP_from(r, Q_from(r, dP, eta, L), eta, L) equals dP.
C1_RoundTrip ==
    (IsSet(fback) /\ NPos(fr) /\ NPos(feta) /\ NPos(fL)) => NEq(fback, fx)

C1_Witness ==
    /\ IsSet(fback) /\ NPos(fr) /\ NPos(feta) /\ NPos(fL)
    /\ IsNum(fback) /\ fx.neg /\ NEq(fback, fx)

C4_Scaling ==
    (IsSet(fQ) /\ IsSet(fQ2r) /\ NPos(feta) /\ NPos(fL))
        => NEq(fQ2r, SMul(Dec(16, 0), fQ))

C4_Witness ==
    /\ IsSet(fQ) /\ IsSet(fQ2r) /\ NPos(feta) /\ NPos(fL)
    /\ NPos(fr) /\ NPos(fx) /\ NPos(fQ) /\ NLess(fQ, fQ2r)

----------------------------------------------------------------------------
(* Properties of the page, checked under Spec.  The expected values are    *)
(* written out from the closed forms, independently of the script's steps. *)

Fourth(x) == SMul(SMul(x, x), SMul(x, x))

\* pi r^4 p / (8 e l)
Poiseuille(r, p, e, l) ==
    SDiv(SMul(Pi, SMul(Fourth(r), p)), SMul(Dec(8, 0), SMul(e, l)))

\* 8 e l q / (pi r^4)
Inverse(r, q, e, l) ==
    SDiv(SMul(Dec(8, 0), SMul(e, SMul(l, q))), SMul(Pi, Fourth(r)))

Metres(mm) == SMul(mm, Dec(1, -3))

\* the i-th of 200 evenly spaced radii from 0.2 mm to 3.0 mm, in metres
RGrid(i) == [neg |-> FALSE, n |-> BNat(398 + 28 * (i - 1)), d |-> BNat(199), e |-> -4]
\* the i-th of 200 evenly spaced viscosities from 0.003 to 0.007
EtaGrid(i) == [neg |-> FALSE, n |-> BNat(597 + 4 * (i - 1)), d |-> BNat(199), e |-> -3]

Between(x, lo, hi) == IsNum(x) /\ ~NLess(x, lo) /\ ~NLess(hi, x)

\* the displayed value d of the flow q under the unit chosen
Shown(d, q) ==
    IF unit = "mL/s" THEN NEq(d, SMul(q, Dec(1, 6))) ELSE d = q

ShownArr(d, q) ==
    /\ IsArr(d) /\ DOMAIN d.arr = DOMAIN q.arr
    /\ \A i \in DOMAIN q.arr : Shown(d.arr[i], q.arr[i])

Increasing(a) ==
    IsArr(a) /\ \A i \in 1..(Len(a.arr) - 1) : NLess(a.arr[i], a.arr[i + 1])
Decreasing(a) ==
    IsArr(a) /\ \A i \in 1..(Len(a.arr) - 1) : NLess(a.arr[i + 1], a.arr[i])

\* C3: Q_from is strictly increasing in r and in dP and strictly decreasing
\* in eta and in L (the other arguments fixed, r > 0, eta > 0, L > 0, and
\* dP > 0 where r, eta or L varies); and in every finished run the radius
\* sweep is strictly increasing and the viscosity sweep strictly decreasing.
C3_Monotone ==
    pc = "done" =>
        LET r_m == Metres(r_mm) IN
        /\ Increasing(Q_r_m3s) /\ Increasing(Q_r_disp)
        /\ Decreasing(Q_eta_m3s) /\ Decreasing(Q_eta_disp)
        /\ Len(Q_r_m3s.arr) = 200 /\ Len(Q_eta_m3s.arr) = 200
        /\ \A k \in {1, 2, 7, 10, 11, 30, 45} :
              LET v == Dec(k, -4) IN
              /\ NLess(r_m, v) => NLess(Q_now_m3s, Q_from(v, dP, eta, L))
              /\ NLess(v, r_m) => NLess(Q_from(v, dP, eta, L), Q_now_m3s)
        /\ \A k \in {-200, 0, 50, 100, 999, 1001, 3000} :
              LET v == Dec(k, 0) IN
              /\ NLess(dP, v) => NLess(Q_now_m3s, Q_from(r_m, v, eta, L))
              /\ NLess(v, dP) => NLess(Q_from(r_m, v, eta, L), Q_now_m3s)
        /\ \A k \in {1, 3, 4, 5, 6, 9} :
              LET v == Dec(k, -3) IN
              /\ NLess(eta, v) => NLess(Q_from(r_m, dP, v, L), Q_now_m3s)
              /\ NLess(v, eta) => NLess(Q_now_m3s, Q_from(r_m, dP, v, L))
        /\ \A k \in {1, 5, 9, 10, 11, 30, 50} :
              LET v == Dec(k, -2) IN
              /\ NLess(L, v) => NLess(Q_from(r_m, dP, eta, v), Q_now_m3s)
              /\ NLess(v, L) => NLess(Q_now_m3s, Q_from(r_m, dP, eta, v))

C3_Witness ==
    /\ pc = "done" /\ unit = "m3/s" /\ r_mm = Dec(2, -1) /\ L = Dec(5, -2)
    /\ NLess(Q_r_m3s.arr[1], Q_r_m3s.arr[200])
    /\ NLess(Q_eta_m3s.arr[200], Q_eta_m3s.arr[1])

\* C5: Q_target is Q_from(0.001, dP_base, 0.004, L); the loop appends, in
\* catalog order, one pressure per scenario (baseline 1.0 mm / 0.004,
\* arterial stiffening 0.7 mm / 0.005, hyperlipidemia 1.0 mm / 0.005,
\* dehydration 1.0 mm / 0.006), each dP_from(r, Q_target, eta, L) with the
\* same L; a finished run holds exactly four, whatever the sidebar's
\* radius, viscosity and pressure difference are.
C5_Scenarios ==
    LET cat == << <<Dec(1, -3), Dec(4, -3)>>, <<Dec(7, -4), Dec(5, -3)>>,
                  <<Dec(1, -3), Dec(5, -3)>>, <<Dec(1, -3), Dec(6, -3)>> >>
        order == <<"normal", "arterial", "hyperlipidemia", "dehydration">>
    IN  /\ pc \in {"scenarios", "done"} =>
              NEq(Q_target_m3s, Poiseuille(Dec(1, -3), dP_base, Dec(4, -3), L))
        /\ Len(dPs) <= 4 /\ Len(names) = Len(dPs)
        /\ pc = "done" => Len(dPs) = 4
        /\ \A k \in 1..Len(dPs) :
              /\ names[k] = order[k]
              /\ NEq(dPs[k], Inverse(cat[k][1], Q_target_m3s, cat[k][2], L))

C5_Witness ==
    /\ pc = "done" /\ Len(dPs) = 4
    /\ r_mm # Dec(10, -1) /\ eta # Dec(4, -3) /\ L # Dec(10, -2)
    /\ dP_base # Dec(200, 0)

\* C6 as stated: with dP_base = 200 Pa and L = 0.10 m, Q_target is 7.854e-10
\* m3/s (7.854e-4 mL/s) to four digits and the arterial-stiffening pressure
\* is 8 * 0.005 * 0.10 * Q_target / (pi * 0.0007^4).
C6_Original ==
    (pc = "done" /\ dP_base = Dec(200, 0) /\ L = Dec(10, -2)) =>
        /\ Between(Q_target_m3s, Dec(78535, -14), Dec(78545, -14))
        /\ unit = "mL/s" => Between(Q_target_disp, Dec(78535, -8), Dec(78545, -8))
        /\ NEq(dPs[2], Inverse(Dec(7, -4), Q_target_m3s, Dec(5, -3), Dec(10, -2)))

\* C6 (amended): with dP_base = 200 Pa and L = 0.10 m, Q_target is 1.9635e-7
\* m3/s (0.19635 mL/s) to five digits and the arterial-stiffening pressure
\* is 8 * 0.005 * 0.10 * Q_target / (pi * 0.0007^4).
C6_Worked ==
    (pc = "done" /\ dP_base = Dec(200, 0) /\ L = Dec(10, -2)) =>
        /\ Between(Q_target_m3s, Dec(196345, -12), Dec(196355, -12))
        /\ unit = "mL/s" => Between(Q_target_disp, Dec(196345, -6), Dec(196355, -6))
        /\ NEq(dPs[2], Inverse(Dec(7, -4), Q_target_m3s, Dec(5, -3), Dec(10, -2)))

C6_Witness ==
    /\ pc = "done" /\ dP_base = Dec(200, 0) /\ L = Dec(10, -2) /\ unit = "mL/s"
    /\ Between(dPs[2], Dec(1041, 0), Dec(1042, 0))

\* C7: the step that ends a run sets the warning exactly when some scenario
\* pressure (hence the maximum) is strictly above 5333 Pa, and changes none
\* of the computed values.
C7_Advisory ==
    [][(pc = "scenarios" /\ pc' = "done") =>
          /\ warning' <=> (\E k \in 1..Len(dPs) : NLess(Dec(5333, 0), dPs[k]))
          /\ UNCHANGED <<widgets, now_vars, plot_r_vars, plot_eta_vars,
                         target_vars, scen_vars>>]_vars

C7_Witness ==
    /\ pc = "done" /\ warning
    /\ \E k \in 1..Len(dPs) : NLess(dPs[k], Dec(5333, 0))

\* C8: whenever a run has finished, every output is the function of the
\* current widget values alone: the current flow, both sweeps, Q_target,
\* the four pressures and the advisory; a displayed flow is Q * 1,000,000
\* under mL/s and Q itself under m3/s.
C8_LastInputWins ==
    pc = "done" =>
        LET r_m == Metres(r_mm)
            qt == Poiseuille(Dec(1, -3), dP_base, Dec(4, -3), L)
            need == [k \in 1..4 |->
                        Inverse(Metres(scenarios[k].r_mm), qt, scenarios[k].eta, L)]
        IN  /\ NEq(Q_now_m3s, Poiseuille(r_m, dP, eta, L))
            /\ Shown(Q_now_disp, Q_now_m3s)
            /\ IsArr(Q_r_m3s) /\ DOMAIN Q_r_m3s.arr = 1..200
            /\ \A i \in 1..200 :
                  NEq(Q_r_m3s.arr[i], Poiseuille(RGrid(i), dP, eta, L))
            /\ ShownArr(Q_r_disp, Q_r_m3s)
            /\ IsArr(Q_eta_m3s) /\ DOMAIN Q_eta_m3s.arr = 1..200
            /\ \A i \in 1..200 :
                  NEq(Q_eta_m3s.arr[i], Poiseuille(r_m, dP, EtaGrid(i), L))
            /\ ShownArr(Q_eta_disp, Q_eta_m3s)
            /\ NEq(Q_target_m3s, qt)
            /\ Shown(Q_target_disp, Q_target_m3s)
            /\ Len(dPs) = 4
            /\ \A k \in 1..4 : NEq(dPs[k], need[k])
            /\ warning <=> (\E k \in 1..4 : NLess(Dec(5333, 0), need[k]))

C8_Witness ==
    /\ pc = "done" /\ unit = "m3/s"
    /\ r_mm # Dec(10, -1) /\ eta # Dec(4, -3) /\ L # Dec(10, -2)
    /\ dP_base # Dec(200, 0)
    /\ Q_now_disp = Q_now_m3s

\* C9: the widgets hold values of their ranges only; with them every
\* denominator met by the script (8 eta L and pi r^4, for the sidebar
\* values, every sweep point and every scenario) is strictly positive when
\* the step that divides by it starts, no run ends in an exception, and
\* every flow and pressure a step leaves behind is a strictly positive
\* number.
C9_InputSafety ==
    /\ pc # "exception"
    /\ Between(r_mm, Dec(2, -1), Dec(30, -1))
    /\ eta \in {Dec(3, -3), Dec(4, -3), Dec(5, -3)}
    /\ Between(dP, Dec(100, 0), Dec(3000, 0))
    /\ Between(L, Dec(5, -2), Dec(30, -2))
    /\ Between(dP_base, Dec(50, 0), Dec(2000, 0))
    /\ NPos(SMul(SMul(Dec(8, 0), eta), L))
    /\ NPos(SMul(Pi, Fourth(Metres(r_mm))))
    /\ pc = "plot_r" =>
          \A i \in DOMAIN r_vals.arr : NPos(SMul(Pi, Fourth(Metres(r_vals.arr[i]))))
    /\ pc = "plot_eta" =>
          \A i \in DOMAIN eta_vals.arr :
              NPos(SMul(SMul(Dec(8, 0), eta_vals.arr[i]), L))
    /\ \A k \in 1..Len(scenarios) :
          /\ NPos(SMul(Pi, Fourth(Metres(scenarios[k].r_mm))))
          /\ NPos(SMul(SMul(Dec(8, 0), scenarios[k].eta), L))
    /\ IsSet(Q_now_m3s) => (NPos(Q_now_m3s) /\ NPos(Q_now_disp))
    /\ pc \in {"plot_eta", "done"} =>
          /\ DOMAIN Q_r_m3s.arr = 1..200 /\ DOMAIN Q_r_disp.arr = 1..200
          /\ \A i \in 1..200 : NPos(Q_r_m3s.arr[i]) /\ NPos(Q_r_disp.arr[i])
    /\ pc \in {"target", "done"} =>
          /\ DOMAIN Q_eta_m3s.arr = 1..200 /\ DOMAIN Q_eta_disp.arr = 1..200
          /\ \A i \in 1..200 : NPos(Q_eta_m3s.arr[i]) /\ NPos(Q_eta_disp.arr[i])
    /\ IsSet(Q_target_m3s) => (NPos(Q_target_m3s) /\ NPos(Q_target_disp))
    /\ \A k \in 1..Len(dPs) : NPos(dPs[k])

C9_Witness ==
    /\ pc = "done" /\ r_mm = Dec(2, -1) /\ L = Dec(5, -2) /\ eta = Dec(3, -3)
    /\ NPos(Q_now_m3s) /\ Len(dPs) = 4 /\ NPos(Q_r_m3s.arr[1])

\* C10: in a finished run the four pressures depend on dP_base alone: each
\* is dP_base * (eta_s / 0.004) * (1.0 mm / r_s)^4, whatever L and the
\* sidebar values are; the baseline's is dP_base; the arterial-stiffening
\* one is the largest; and the warning is set exactly when dP_base >= 1025.
\* For every integer b of 50..2000 (taken with each L, the sidebar at its
\* defaults), the arterial-stiffening pressure for dP_base = b exceeds 5333
\* exactly when b >= 1025.
C10_OnlyDPBase ==
    /\ pc = "done" =>
        LET cat == << <<Dec(10, -1), Dec(4, -3)>>, <<Dec(7, -1), Dec(5, -3)>>,
                      <<Dec(10, -1), Dec(5, -3)>>, <<Dec(10, -1), Dec(6, -3)>> >>
        IN  /\ Len(dPs) = 4
            /\ \A k \in 1..4 :
                  NEq(dPs[k], SMul(SMul(dP_base, SDiv(cat[k][2], Dec(4, -3))),
                                   Fourth(SDiv(Dec(10, -1), cat[k][1]))))
            /\ NEq(dPs[1], dP_base)
            /\ \A k \in 1..4 : ~NLess(dPs[2], dPs[k])
            /\ warning <=> ~NLess(dP_base, Dec(1025, 0))
    /\ (/\ pc = "done" /\ r_mm = Dec(10, -1) /\ eta = Dec(4, -3)
        /\ dP = Dec(1000, 0) /\ unit = "mL/s" /\ dP_base = Dec(200, 0)) =>
        \A b \in 50..2000 :
            LET qt == Q_from(Dec(1, -3), Dec(b, 0), Dec(4, -3), L)
                need == dP_from(Dec(7, -4), qt, Dec(5, -3), L)
            IN  NLess(Threshold, need) <=> b >= 1025

C10_Witness ==
    /\ pc = "done" /\ warning /\ dP_base = Dec(1025, 0)
    /\ L = Dec(5, -2) /\ r_mm # Dec(10, -1) /\ unit = "m3/s"

====
